---- MODULE Spec2Model ----
(***************************************************************************)
(* Parking occupancy and billing: the ParkingManagement session of         *)
(* parking/parking_management.py and the registry parking_managers of      *)
(* parking/views.py.                                                       *)
(*                                                                         *)
(* Numbers.  price_per_hour is an integer-valued Decimal (models.py:34,    *)
(* decimal_places=0).  Every amount of money (Invoice, total_revenue, the  *)
(* argument and result of round_invoice, the result of calc_invoice) is a  *)
(* fixed-point number: the integer n stands for n / Unit.  Python's `/`    *)
(* on a Decimal rounds the quotient half-even to the context precision;    *)
(* the model rounds it half-even to FracDigits fractional digits.          *)
(***************************************************************************)
EXTENDS Integers, Sequences, FiniteSets, TLC

\* ------------------------------------------------------------------ bounds
NumLots == 2
MaxSpaces == 2
MaxBoxes == 2
MaxFrames == 5
FracDigits == 3
MaxAmount == 3000
MaxTime == 30
MaxRequests == 4

Unit == 10 ^ FracDigits

Lots == 1 .. NumLots

\* price_per_hour values of the Parking rows (non-negative, whole numbers)
Prices == {2000, 7000}

\* No entry for the lot in parking_managers
NoManager == [none |-> TRUE]

\* price_per_hour=None, the default of ParkingManagement.__init__
NoPrice == -1

\* --------------------------------------------------------------- geometry
\* Polygons are axis-aligned rectangles, given as their four corners [x, y].
Rect(x0, y0, x1, y1) == [points |-> <<<<x0, y0>>, <<x1, y0>>, <<x1, y1>>, <<x0, y1>>>>]

\* Two slots that touch in the corner (2,2) only.  The upper right one sorts
\* first (smaller min-y) although the lower left one has the smaller min-x.
Polygons == {Rect(2, 0, 4, 2), Rect(0, 2, 2, 4)}

\* Detections: bounding boxes <<x1, y1, x2, y2>>.
\*   <<2,0,5,3>>  centroid (3,1): inside the upper right slot (int(3.5), int(1.5))
\*   <<0,2,3,5>>  centroid (1,3): inside the lower left slot
\*   <<1,1,3,3>>  centroid (2,2): on the corner the two slots share
\* Each of the first two is outside the other slot.
Boxes == {<<2, 0, 5, 3>>, <<0, 2, 3, 5>>, <<1, 1, 3, 3>>}

RECURSIVE SeqsUpTo(_, _)
SeqsUpTo(S, n) ==
  IF n = 0 THEN {<<>>}
  ELSE LET shorter == SeqsUpTo(S, n - 1)
       IN shorter \cup {Append(q, e) : q \in {r \in shorter : Len(r) = n - 1}, e \in S}

\* The detections of one frame (self.boxes after extract_tracks)
Frames == SeqsUpTo(Boxes, MaxBoxes)

MinOf(S) == CHOOSE m \in S : \A e \in S : m <= e

get_min_coords(polygon) ==
  LET points == polygon.points
      min_x == MinOf({points[i][1] : i \in 1 .. Len(points)})
      min_y == MinOf({points[i][2] : i \in 1 .. Len(points)})
  IN <<min_y, min_x>>

MaxOf(S) == CHOOSE m \in S : \A e \in S : m >= e

\* cv2.pointPolygonTest(pts_array, (xc, yc), False): +1 inside, 0 on an edge,
\* -1 outside.  For the axis-aligned rectangles of the model.
pointPolygonTest(points, xc, yc) ==
  LET xs == {points[i][1] : i \in 1 .. Len(points)}
      ys == {points[i][2] : i \in 1 .. Len(points)}
      x0 == MinOf(xs)
      x1 == MaxOf(xs)
      y0 == MinOf(ys)
      y1 == MaxOf(ys)
  IN IF xc < x0 \/ xc > x1 \/ yc < y0 \/ yc > y1 THEN -1
     ELSE IF xc = x0 \/ xc = x1 \/ yc = y0 \/ yc = y1 THEN 0
     ELSE 1

\* np.array(region["points"], dtype=np.int32).reshape((-1, 1, 2)) raises
\* ValueError when the points do not all have the same number of coordinates
\* (no integer array can be built) or when the number of coordinates in the
\* whole list is odd (it cannot be reshaped into pairs).
ArrayRaises(region) ==
  LET points == region.points
  IN \/ \E i, j \in 1 .. Len(points) : Len(points[i]) # Len(points[j])
     \/ \E i \in 1 .. Len(points) : (Len(points) * Len(points[i])) % 2 = 1

\* Tuple comparison of two sort keys (min_y, min_x)
KeyLess(a, b) == a[1] < b[1] \/ (a[1] = b[1] /\ a[2] < b[2])

\* sorted(annotation_data, key=get_min_coords): stable insertion of each
\* element after the last element whose key is not greater.
RECURSIVE InsertSorted(_, _)
InsertSorted(sortedSeq, p) ==
  IF sortedSeq = <<>> THEN <<p>>
  ELSE LET last == sortedSeq[Len(sortedSeq)]
       IN IF KeyLess(get_min_coords(p), get_min_coords(last))
          THEN Append(InsertSorted(SubSeq(sortedSeq, 1, Len(sortedSeq) - 1), p), last)
          ELSE Append(sortedSeq, p)

RECURSIVE sorted(_)
sorted(annotation_data) ==
  IF annotation_data = <<>> THEN <<>>
  ELSE InsertSorted(sorted(SubSeq(annotation_data, 1, Len(annotation_data) - 1)),
                    annotation_data[Len(annotation_data)])

\* The annotation files CreateAnnotationView can have written: a non-empty
\* list of polygons, sorted by get_min_coords.
AnnotationFiles == {sorted(a) : a \in SeqsUpTo(Polygons, MaxSpaces) \ {<<>>}}

\* ------------------------------------------------------------ arithmetic
\* price_per_hour / 60 on an integer-valued Decimal, rounded half-even
PerMinute(price_per_hour) ==
  LET n == price_per_hour * Unit
      q == n \div 60
      r == n % 60
  IN IF 2 * r < 60 THEN q
     ELSE IF 2 * r > 60 THEN q + 1
     ELSE IF q % 2 = 0 THEN q ELSE q + 1

\* Variant: rounds to the nearest multiple of 100 instead of down
round_invoice_Nearest(amount) == ((amount + 50 * Unit) \div (100 * Unit)) * (100 * Unit)

round_invoice(amount) == (amount \div (100 * Unit)) * (100 * Unit)

\* Variant: the hourly price is not converted to a price per minute
calc_invoice_PerHour(time, price_per_hour) == price_per_hour * Unit * time

calc_invoice(time, price_per_hour) == PerMinute(price_per_hour) * time

\* ----------------------------------------------------------------- state
VARIABLES
  parking_managers,  \* views.py:25  lot id -> ParkingManagement object or NoManager
  request,           \* the last call made: its kind, lot and detections
  frames,            \* per lot, the number of process_data calls made so far
  occupied_run,      \* history: per lot and space, consecutive occupied frames seen
  amount,            \* argument of the last round_invoice evaluation
  rounded,           \* its result
  storage,           \* default_storage: lot id -> the lot's annotation file or NoFile
  response,          \* outcome of the last request: HTTP status and what produced it
  served,            \* number of requests handled so far
  conc,              \* two overlapping process_data calls on one object, or NoConc
  args,              \* arguments of the last evaluation of a function on its own
  result             \* its result; for CreateAnnotationView, the entry it replaced

vars == <<parking_managers, request, frames, occupied_run, amount, rounded,
          storage, response, served, conc, args, result>>

\* The variables only the HTTP views, the overlapping calls and the function
\* evaluations use
\* default_storage.exists(file_path) and, when it does, the list json.load reads
NoFile == [exists |-> FALSE, json |-> <<>>]
File(json) == [exists |-> TRUE, json |-> json]
NoResponse == [status |-> 0, by |-> "none"]
NoConc == [none |-> TRUE]
NoArgs == <<>>
ViewsIdle ==
  /\ response = NoResponse
  /\ served = 0

\* Variant: the keys of spots start at 0
ParkingManagement_ZeroBased(json, price_per_hour) ==
  [json |-> json,
   pr_info |-> [Occupancy |-> 0, Available |-> 0, total_cars |-> 0,
                total_time |-> 0, total_revenue |-> 0],
   price_per_hour |-> price_per_hour,
   spots |-> [idx \in 0 .. Len(json) - 1 |->
                [Time |-> 0, Invoice |-> 0, IsAvailable |-> TRUE]]]

\* ParkingManagement.__init__
ParkingManagement(json, price_per_hour) ==
  [json |-> json,
   pr_info |-> [Occupancy |-> 0, Available |-> 0, total_cars |-> 0,
                total_time |-> 0, total_revenue |-> 0],
   price_per_hour |-> price_per_hour,
   spots |-> [idx \in 1 .. Len(json) |-> [Time |-> 0, Invoice |-> 0, IsAvailable |-> TRUE]]]

\* The detection loop of one region: True as soon as one centroid is inside
\* or on the boundary (break), False when no detection is.
RECURSIVE RegionOccupied(_, _, _)
\* Variant: a centroid on the boundary does not count
RegionOccupied_Strict(region, boxes, i) ==
  \E j \in i .. Len(boxes) :
    pointPolygonTest(region.points, (boxes[j][1] + boxes[j][3]) \div 2,
                     (boxes[j][2] + boxes[j][4]) \div 2) > 0

RegionOccupied(region, boxes, i) ==
  IF i > Len(boxes) THEN FALSE
  ELSE LET box == boxes[i]
           xc == (box[1] + box[3]) \div 2
           yc == (box[2] + box[4]) \div 2
           dist == pointPolygonTest(region.points, xc, yc)
       IN IF dist >= 0 THEN TRUE ELSE RegionOccupied(region, boxes, i + 1)

\* Variant: counts a car on every occupied verdict, whatever IsAvailable was
OpenSession_CountsEveryOccupied(self, k, rg_occupied) ==
  IF rg_occupied
  THEN [self EXCEPT !.pr_info.total_cars = @ + 1,
                    !.spots[k].IsAvailable = FALSE]
  ELSE self

\* Variant: opens a session on an available space without looking at the verdict
OpenSession_IgnoresVerdict(self, k, rg_occupied) ==
  IF self.spots[k].IsAvailable
  THEN [self EXCEPT !.pr_info.total_cars = @ + 1,
                    !.spots[k].IsAvailable = FALSE]
  ELSE self

\* The four `if` statements of one region, executed in sequence on the
\* record the previous ones left.
OpenSession(self, k, rg_occupied) ==
  IF self.spots[k].IsAvailable /\ rg_occupied
  THEN [self EXCEPT !.pr_info.total_cars = @ + 1,
                    !.spots[k].IsAvailable = FALSE]
  ELSE self

\* Variant: the close forgets to reset Invoice
CloseSession_KeepsInvoice(self, k, rg_occupied) ==
  IF ~self.spots[k].IsAvailable /\ ~rg_occupied
  THEN [self EXCEPT !.pr_info.total_time = @ + self.spots[k].Time,
                    !.pr_info.total_revenue = @ + round_invoice(self.spots[k].Invoice),
                    !.spots[k] = [Time |-> 0, Invoice |-> self.spots[k].Invoice,
                                  IsAvailable |-> TRUE]]
  ELSE self

\* Variant: Invoice is reset before it is added to total_revenue
CloseSession_ResetsBeforeAdding(self, k, rg_occupied) ==
  IF ~self.spots[k].IsAvailable /\ ~rg_occupied
  THEN [self EXCEPT !.pr_info.total_time = @ + self.spots[k].Time,
                    !.pr_info.total_revenue = @ + round_invoice(0),
                    !.spots[k] = [Time |-> 0, Invoice |-> 0, IsAvailable |-> TRUE]]
  ELSE self

\* Variant: the Invoice is added to total_revenue without rounding
CloseSession_AddsRawInvoice(self, k, rg_occupied) ==
  IF ~self.spots[k].IsAvailable /\ ~rg_occupied
  THEN [self EXCEPT !.pr_info.total_time = @ + self.spots[k].Time,
                    !.pr_info.total_revenue = @ + self.spots[k].Invoice,
                    !.spots[k] = [Time |-> 0, Invoice |-> 0, IsAvailable |-> TRUE]]
  ELSE self

\* Variant: the close counts the car a second time
CloseSession_CountsCarAgain(self, k, rg_occupied) ==
  IF ~self.spots[k].IsAvailable /\ ~rg_occupied
  THEN [self EXCEPT !.pr_info.total_cars = @ + 1,
                    !.pr_info.total_time = @ + self.spots[k].Time,
                    !.pr_info.total_revenue = @ + round_invoice(self.spots[k].Invoice),
                    !.spots[k] = [Time |-> 0, Invoice |-> 0, IsAvailable |-> TRUE]]
  ELSE self

CloseSession(self, k, rg_occupied) ==
  IF ~self.spots[k].IsAvailable /\ ~rg_occupied
  THEN [self EXCEPT !.pr_info.total_time = @ + self.spots[k].Time,
                    !.pr_info.total_revenue = @ + round_invoice(self.spots[k].Invoice),
                    !.spots[k] = [Time |-> 0, Invoice |-> 0, IsAvailable |-> TRUE]]
  ELSE self

\* Variant: every tick is added to total_time as it happens
ContinueSession_AddsToTotal(self, k, rg_occupied) ==
  IF ~self.spots[k].IsAvailable /\ rg_occupied
  THEN [self EXCEPT !.pr_info.total_time = @ + 1,
                    !.spots[k].Time = @ + 1,
                    !.spots[k].Invoice =
                       calc_invoice(self.spots[k].Time + 1, self.price_per_hour)]
  ELSE self

\* Variant: the running Invoice is rounded on every tick
ContinueSession_RoundsInvoice(self, k, rg_occupied) ==
  IF ~self.spots[k].IsAvailable /\ rg_occupied
  THEN [self EXCEPT !.spots[k].Time = @ + 1,
                    !.spots[k].Invoice =
                       round_invoice(calc_invoice(self.spots[k].Time + 1, self.price_per_hour))]
  ELSE self

\* With price_per_hour None, line 257 has incremented Time when calc_invoice
\* raises TypeError on line 258; Invoice keeps its value.
ContinueSession(self, k, rg_occupied) ==
  IF ~self.spots[k].IsAvailable /\ rg_occupied
  THEN [self EXCEPT !.spots[k].Time = @ + 1,
                    !.spots[k].Invoice =
                       IF self.price_per_hour = NoPrice THEN @
                       ELSE calc_invoice(self.spots[k].Time + 1, self.price_per_hour)]
  ELSE self

\* Variant: the continue block is executed twice
UpdateSpot_TicksTwice(self, k, rg_occupied) ==
  ContinueSession(
    ContinueSession(CloseSession(OpenSession(self, k, rg_occupied), k, rg_occupied),
                    k, rg_occupied),
    k, rg_occupied)

UpdateSpot(self, k, rg_occupied) ==
  ContinueSession(CloseSession(OpenSession(self, k, rg_occupied), k, rg_occupied), k, rg_occupied)

\* for idx, region in enumerate(self.json): regions idx+1 = k .. len(json),
\* carrying fs (filled slots) and es (empty slots).
\* An exception (line 213 or line 258) ends the call and leaves the object as
\* the statements executed so far made it.
InvoiceRaises(self, rg_occupied) == rg_occupied /\ self.price_per_hour = NoPrice

RECURSIVE RegionLoop(_, _, _, _, _)
RegionLoop(self, boxes, k, fs, es) ==
  IF k > Len(self.json)
  THEN [self EXCEPT !.pr_info.Occupancy = fs, !.pr_info.Available = es]
  ELSE IF ArrayRaises(self.json[k]) THEN self
  ELSE LET rg_occupied == RegionOccupied(self.json[k], boxes, 1)
       IN IF InvoiceRaises(self, rg_occupied) THEN UpdateSpot(self, k, rg_occupied)
          ELSE RegionLoop(UpdateSpot(self, k, rg_occupied), boxes, k + 1,
                          IF rg_occupied THEN fs + 1 ELSE fs,
                          IF rg_occupied THEN es - 1 ELSE es)

\* The call ends in an exception
ProcessRaises(self, boxes) ==
  \E k \in 1 .. Len(self.json) :
    \/ ArrayRaises(self.json[k])
    \/ InvoiceRaises(self, RegionOccupied(self.json[k], boxes, 1))

\* Variant: fs and es continue from the counts of the previous frame
ProcessData_Accumulates(self, boxes) ==
  IF self.pr_info.Occupancy + self.pr_info.Available = Len(self.json)
  THEN RegionLoop(self, boxes, 1, self.pr_info.Occupancy, self.pr_info.Available)
  ELSE RegionLoop(self, boxes, 1, 0, Len(self.json))

\* Variant: es starts at 0 instead of len(self.json)
ProcessData_EmptyFromZero(self, boxes) == RegionLoop(self, boxes, 1, 0, 0)

\* ParkingManagement.process_data as a function of the object and the
\* detections of the frame
ProcessData(self, boxes) == RegionLoop(self, boxes, 1, 0, Len(self.json))

\* -------------------------------------------------------------- behaviour
NoRequest == [kind |-> "none", lot |-> 0, boxes |-> <<>>]

\* A session has been constructed for one lot; no frame processed yet.
Init ==
  /\ \E lot \in Lots, json \in AnnotationFiles, price_per_hour \in Prices :
       /\ parking_managers = [l \in Lots |->
            IF l = lot THEN ParkingManagement(json, price_per_hour) ELSE NoManager]
       /\ storage = [l \in Lots |-> IF l = lot THEN File(json) ELSE NoFile]
  /\ request = NoRequest
  /\ frames = [l \in Lots |-> 0]
  /\ occupied_run = [l \in Lots |-> [k \in 1 .. MaxSpaces |-> 0]]
  /\ amount = 0
  /\ rounded = 0
  /\ ViewsIdle
  /\ conc = NoConc
  /\ args = NoArgs
  /\ result = NoArgs

RECURSIVE SumOver(_, _)
SumOver(f, S) ==
  IF S = {} THEN 0
  ELSE LET x == CHOOSE e \in S : TRUE IN f[x] + SumOver(f, S \ {x})

\* One call of process_data on the session of a lot, with the detections
\* extract_tracks found in the frame.
process_data(lot, boxes) ==
  /\ parking_managers[lot] # NoManager
  /\ SumOver(frames, Lots) < MaxFrames
  /\ parking_managers' = [parking_managers EXCEPT ![lot] = ProcessData(@, boxes)]
  /\ request' = [kind |-> "process_data", lot |-> lot, boxes |-> boxes]
  /\ frames' = [frames EXCEPT ![lot] = @ + 1]
  /\ occupied_run' = [occupied_run EXCEPT ![lot] =
        [k \in DOMAIN @ |->
           IF k <= Len(parking_managers[lot].json)
              /\ RegionOccupied(parking_managers[lot].json[k], boxes, 1)
           THEN @[k] + 1 ELSE 0]]
  /\ UNCHANGED <<amount, rounded, storage, response, served, conc, args, result>>

Next == \E lot \in Lots, boxes \in Frames : process_data(lot, boxes)

Spec == Init /\ [][Next]_vars

\* ------------------------------------------------ round_invoice on its own
\* A whole amount x in 0 .. MaxAmount is handed to round_invoice.
InitRound ==
  /\ parking_managers = [l \in Lots |-> NoManager]
  /\ request = NoRequest
  /\ frames = [l \in Lots |-> 0]
  /\ occupied_run = [l \in Lots |-> [k \in 1 .. MaxSpaces |-> 0]]
  /\ amount \in {x * Unit : x \in 0 .. MaxAmount}
  /\ rounded = 0
  /\ storage = [l \in Lots |-> NoFile]
  /\ ViewsIdle
  /\ conc = NoConc
  /\ args = NoArgs
  /\ result = NoArgs

call_round_invoice ==
  /\ request = NoRequest
  /\ rounded' = round_invoice(amount)
  /\ request' = [kind |-> "round_invoice", lot |-> 0, boxes |-> <<>>]
  /\ UNCHANGED <<parking_managers, frames, occupied_run, amount,
                 storage, response, served, conc, args, result>>

NextRound == call_round_invoice

SpecRound == InitRound /\ [][NextRound]_vars

\* ------------------------------------------------- calc_invoice on its own
\* Hourly prices, and the arguments handed to calc_invoice: every time up to
\* MaxTime at each of them, and the docstring's calc_invoice(0, 8000)
CalcPrices == {0, 200, 2000, 6000}

CalcArgs ==
  {[time |-> t, price_per_hour |-> p] : t \in 0 .. MaxTime, p \in CalcPrices}
    \cup {[time |-> 0, price_per_hour |-> 8000]}

InitCalc ==
  /\ parking_managers = [l \in Lots |-> NoManager]
  /\ request = NoRequest
  /\ frames = [l \in Lots |-> 0]
  /\ occupied_run = [l \in Lots |-> [k \in 1 .. MaxSpaces |-> 0]]
  /\ amount = 0
  /\ rounded = 0
  /\ storage = [l \in Lots |-> NoFile]
  /\ ViewsIdle
  /\ conc = NoConc
  /\ args \in CalcArgs
  /\ result = NoArgs

call_calc_invoice ==
  /\ request = NoRequest
  /\ result' = calc_invoice(args.time, args.price_per_hour)
  /\ request' = [kind |-> "calc_invoice", lot |-> 0, boxes |-> <<>>]
  /\ UNCHANGED <<parking_managers, frames, occupied_run, amount, rounded,
                 storage, response, served, conc, args>>

NextCalc == call_calc_invoice

SpecCalc == InitCalc /\ [][NextCalc]_vars

\* ------------------------------------- ordering of a submitted annotation
\* The polygons submitted: the two slots, a smaller slot with the sort key
\* (0, 2) of the upper right one, the polygon of the get_min_coords docstring
\* with key (40, 1553), and a polygon with key (10, 500).
SortPolygons ==
  Polygons \cup {Rect(2, 0, 3, 1),
                 [points |-> <<<<1553, 48>>, <<1718, 40>>, <<1735, 128>>, <<1577, 133>>>>],
                 Rect(500, 10, 600, 100)}

InitSort ==
  /\ parking_managers = [l \in Lots |-> NoManager]
  /\ request = NoRequest
  /\ frames = [l \in Lots |-> 0]
  /\ occupied_run = [l \in Lots |-> [k \in 1 .. MaxSpaces |-> 0]]
  /\ amount = 0
  /\ rounded = 0
  /\ storage = [l \in Lots |-> NoFile]
  /\ ViewsIdle
  /\ conc = NoConc
  /\ args \in SeqsUpTo(SortPolygons, MaxSpaces + 1) \ {<<>>}
  /\ result = NoArgs

\* Lines 175-185 of CreateAnnotationView.post: the list that is saved; the
\* polygon at position idx+1 of it gets the id idx+1 (ParkingManagement.__init__).
sort_annotation_data ==
  /\ request = NoRequest
  /\ result' = sorted(args)
  /\ request' = [kind |-> "sorted", lot |-> 0, boxes |-> <<>>]
  /\ UNCHANGED <<parking_managers, frames, occupied_run, amount, rounded,
                 storage, response, served, conc, args>>

NextSort == sort_annotation_data

SpecSort == InitSort /\ [][NextSort]_vars

\* ------------------------------- two overlapping calls of process_data
\* Two requests for the same lot are served by two threads of one process.
\* Both call process_data on the one object parking_managers[lot]; nothing in
\* views.py or parking_management.py holds a lock.  extract_tracks stores the
\* detections in self.boxes, an attribute of the shared object; fs, es and
\* idx are locals of each call.  A thread switch is modelled between
\* extract_tracks, the iterations of the region loop and line 261.
Threads == {1, 2}

IdleThread == [pc |-> "start", im0 |-> <<>>, idx |-> 0, fs |-> 0, es |-> 0]

InitConc ==
  /\ \E lot \in Lots, json \in AnnotationFiles, price_per_hour \in Prices :
       /\ parking_managers = [l \in Lots |->
            IF l = lot THEN ParkingManagement(json, price_per_hour) ELSE NoManager]
       /\ storage = [l \in Lots |-> IF l = lot THEN File(json) ELSE NoFile]
       /\ conc = [lot |-> lot,
                  start |-> ParkingManagement(json, price_per_hour),
                  boxes |-> <<>>,
                  thr |-> [t \in Threads |-> IdleThread]]
  /\ request = NoRequest
  /\ frames = [l \in Lots |-> 0]
  /\ occupied_run = [l \in Lots |-> [k \in 1 .. MaxSpaces |-> 0]]
  /\ amount = 0
  /\ rounded = 0
  /\ ViewsIdle
  /\ args = NoArgs
  /\ result = NoArgs

\* Lines 207-208: self.extract_tracks(im0); es, fs = len(self.json), 0
thread_extract_tracks(t, boxes) ==
  /\ conc.thr[t].pc = "start"
  /\ conc' = [conc EXCEPT !.boxes = boxes,
                          !.thr[t] = [pc |-> "loop", im0 |-> boxes, idx |-> 1, fs |-> 0,
                                      es |-> Len(parking_managers[conc.lot].json)]]
  /\ UNCHANGED <<parking_managers, request, frames, occupied_run, amount, rounded,
                 storage, response, served, args, result>>

\* Lines 211-258: one iteration of the region loop, on self.boxes as it is now
thread_region(t) ==
  LET self == parking_managers[conc.lot]
      k == conc.thr[t].idx
  IN /\ conc.thr[t].pc = "loop"
     /\ k <= Len(self.json)
     /\ LET rg_occupied == RegionOccupied(self.json[k], conc.boxes, 1)
        IN /\ parking_managers' = [parking_managers EXCEPT
                                     ![conc.lot] = UpdateSpot(self, k, rg_occupied)]
           /\ conc' = [conc EXCEPT !.thr[t].idx = k + 1,
                                   !.thr[t].fs = IF rg_occupied THEN @ + 1 ELSE @,
                                   !.thr[t].es = IF rg_occupied THEN @ - 1 ELSE @]
     /\ UNCHANGED <<request, frames, occupied_run, amount, rounded,
                    storage, response, served, args, result>>

\* Line 261: self.pr_info["Occupancy"], self.pr_info["Available"] = fs, es
thread_return(t) ==
  LET self == parking_managers[conc.lot]
  IN /\ conc.thr[t].pc = "loop"
     /\ conc.thr[t].idx > Len(self.json)
     /\ parking_managers' = [parking_managers EXCEPT
                               ![conc.lot].pr_info.Occupancy = conc.thr[t].fs,
                               ![conc.lot].pr_info.Available = conc.thr[t].es]
     /\ conc' = [conc EXCEPT !.thr[t].pc = "done"]
     /\ frames' = [frames EXCEPT ![conc.lot] = @ + 1]
     /\ UNCHANGED <<request, occupied_run, amount, rounded,
                    storage, response, served, args, result>>

NextConc ==
  \E t \in Threads :
    \/ \E boxes \in Frames : thread_extract_tracks(t, boxes)
    \/ thread_region(t)
    \/ thread_return(t)

SpecConc == InitConc /\ [][NextConc]_vars

\* ------------------------------------------------------ the HTTP views
\* Parking.price_per_hour of the lot's row (models.py:34, a NOT NULL column)
PriceOfLot(lot) == IF lot % 2 = 1 THEN 2000 ELSE 7000

\* A two-point polygon lying on the lower edge of Rect(2, 0, 4, 2), and a
\* three-point polygon whose last point has three coordinates
Segment == [points |-> <<<<2, 2>>, <<4, 2>>>>]
Ragged == [points |-> <<<<0, 2>>, <<2, 2>>, <<2, 4, 0>>>>]

\* request.data of CreateAnnotationView
Submissions ==
  {<<>>,
   <<Rect(2, 0, 4, 2), Rect(0, 2, 2, 4)>>,
   <<Rect(0, 2, 2, 4), Rect(2, 0, 4, 2)>>,
   <<Rect(0, 2, 2, 4)>>,
   <<Segment>>,
   <<Ragged, Rect(2, 0, 4, 2)>>}

\* Detections of the image posted to ProcessImageView
ViewFrames == SeqsUpTo(Boxes, 1)

\* Variant: a lot that has an entry keeps it
Register_KeepsExisting(managers, lot, session) ==
  IF managers[lot] = NoManager THEN [managers EXCEPT ![lot] = session] ELSE managers

\* Variant: the assignment replaces the entry of every lot
Register_EveryLot(managers, lot, session) == [l \in DOMAIN managers |-> session]

\* parking_managers[parking.id] = ParkingManagement(...)
Register(managers, lot, session) == [managers EXCEPT ![lot] = session]

\* The server process starts: the module-level dict is empty, nothing stored.
InitViews ==
  /\ parking_managers = [l \in Lots |-> NoManager]
  /\ storage = [l \in Lots |-> NoFile]
  /\ request = NoRequest
  /\ frames = [l \in Lots |-> 0]
  /\ occupied_run = [l \in Lots |-> [k \in 1 .. MaxSpaces |-> 0]]
  /\ amount = 0
  /\ rounded = 0
  /\ ViewsIdle
  /\ conc = NoConc
  /\ args = NoArgs
  /\ result = NoArgs

\* CreateAnnotationView.post for a user whose parking has an image.  result
\* keeps the entry the assignment on line 192 replaces (NoManager if none):
\* the object nothing refers to any more.
CreateAnnotationView(lot, annotation_data) ==
  /\ served < MaxRequests
  /\ served' = served + 1
  /\ request' = [kind |-> "CreateAnnotationView", lot |-> lot, boxes |-> <<>>]
  /\ args' = annotation_data
  /\ IF annotation_data = <<>>
     THEN /\ response' = [status |-> 400, by |-> "Missing annotations data"]
          /\ UNCHANGED <<parking_managers, storage, frames, occupied_run, result>>
     ELSE LET sorting_annotation_data == sorted(annotation_data)
          IN /\ storage' = [storage EXCEPT ![lot] = File(sorting_annotation_data)]
             /\ parking_managers' =
                  Register(parking_managers, lot,
                           ParkingManagement(sorting_annotation_data, PriceOfLot(lot)))
             /\ frames' = [frames EXCEPT ![lot] = 0]
             /\ occupied_run' = [occupied_run EXCEPT ![lot] = [k \in DOMAIN @ |-> 0]]
             /\ response' = [status |-> 201, by |-> "CreateAnnotationView"]
             /\ result' = parking_managers[lot]
  /\ UNCHANGED <<amount, rounded, conc>>

\* ProcessImageView.post for a user whose parking has an image.  has_image
\* is whether request.FILES holds 'image'; boxes are the detections in it.
\* After process_data returns, line 279 reads parking.name, an attribute the
\* Parking model does not have, so the request ends in an error response
\* whether or not process_data raised.
ProcessImageView(lot, has_image, boxes) ==
  /\ served < MaxRequests
  /\ served' = served + 1
  /\ request' = [kind |-> "ProcessImageView", lot |-> lot, boxes |-> boxes]
  /\ IF ~storage[lot].exists
     THEN /\ response' = [status |-> 400, by |-> "Parking has no annotation file"]
          /\ UNCHANGED <<parking_managers, frames, occupied_run>>
     ELSE LET self == IF parking_managers[lot] = NoManager
                      THEN ParkingManagement(storage[lot].json, PriceOfLot(lot))
                      ELSE parking_managers[lot]
          IN IF ~has_image
             THEN /\ parking_managers' = Register(parking_managers, lot, self)
                  /\ response' = [status |-> 400, by |-> "No image file provided"]
                  /\ UNCHANGED <<frames, occupied_run>>
             ELSE /\ parking_managers' =
                       Register(parking_managers, lot, ProcessData(self, boxes))
                  /\ frames' = [frames EXCEPT ![lot] = @ + 1]
                  /\ occupied_run' = [occupied_run EXCEPT ![lot] =
                        [k \in DOMAIN @ |->
                           IF k <= Len(self.json) /\ RegionOccupied(self.json[k], boxes, 1)
                           THEN @[k] + 1 ELSE 0]]
                  /\ response' = [status |-> 500,
                                  by |-> IF ProcessRaises(self, boxes)
                                         THEN "process_data" ELSE "parking.name"]
  /\ UNCHANGED <<amount, rounded, storage, conc, args, result>>

\* ParkingImageView.get for an existing parking.  image_exists is whether
\* parking_images/<name>.jpg is on disk.  With an entry for the lot,
\* parking_managers.get(id, {}).get('spots', {}) raises AttributeError.
ParkingImageView(lot, image_exists) ==
  /\ served < MaxRequests
  /\ served' = served + 1
  /\ request' = [kind |-> "ParkingImageView", lot |-> lot, boxes |-> <<>>]
  /\ response' = IF ~image_exists THEN [status |-> 404, by |-> "Image not found"]
                 ELSE IF parking_managers[lot] # NoManager
                 THEN [status |-> 500, by |-> "parking_managers.get"]
                 ELSE [status |-> 200, by |-> "ParkingImageView"]
  /\ UNCHANGED <<parking_managers, storage, frames, occupied_run, amount, rounded,
                 conc, args, result>>

\* The server process is restarted: views.py is imported again and
\* parking_managers is a new empty dict; default_storage keeps its files.
Restart ==
  /\ \E l \in Lots : parking_managers[l] # NoManager
  /\ parking_managers' = [l \in Lots |-> NoManager]
  /\ frames' = [l \in Lots |-> 0]
  /\ occupied_run' = [l \in Lots |-> [k \in 1 .. MaxSpaces |-> 0]]
  /\ request' = [kind |-> "Restart", lot |-> 0, boxes |-> <<>>]
  /\ response' = NoResponse
  /\ UNCHANGED <<storage, served, amount, rounded, conc, args, result>>

NextViews ==
  \/ \E lot \in Lots, annotation_data \in Submissions :
       CreateAnnotationView(lot, annotation_data)
  \/ \E lot \in Lots, boxes \in ViewFrames : ProcessImageView(lot, TRUE, boxes)
  \/ \E lot \in Lots : ProcessImageView(lot, FALSE, <<>>)
  \/ \E lot \in Lots, image_exists \in BOOLEAN : ParkingImageView(lot, image_exists)
  \/ Restart

SpecViews == InitViews /\ [][NextViews]_vars

\* --------------------------------------- sessions constructed by a caller
\* ParkingManagement(model=..., json_file=..., price_per_hour=...) called
\* directly, as in the docstring of process_data (line 203, which passes no
\* price): the caller constructs one session, keeps the object under the
\* lot id and feeds it frames.
InitApi ==
  /\ parking_managers = [l \in Lots |-> NoManager]
  /\ \E json \in AnnotationFiles : storage = [l \in Lots |-> File(json)]
  /\ request = NoRequest
  /\ frames = [l \in Lots |-> 0]
  /\ occupied_run = [l \in Lots |-> [k \in 1 .. MaxSpaces |-> 0]]
  /\ amount = 0
  /\ rounded = 0
  /\ ViewsIdle
  /\ conc = NoConc
  /\ args = NoArgs
  /\ result = NoArgs

\* ParkingManagement.__init__ with the lot's annotation file; price_per_hour
\* is a price or None (the default).  Nothing in it looks at the price.
construct_session(lot, price_per_hour) ==
  /\ \A l \in Lots : parking_managers[l] = NoManager
  /\ parking_managers' =
       Register(parking_managers, lot, ParkingManagement(storage[lot].json, price_per_hour))
  /\ request' = [kind |-> "ParkingManagement", lot |-> lot, boxes |-> <<>>]
  /\ UNCHANGED <<frames, occupied_run, amount, rounded, storage, response, served,
                 conc, args, result>>

NextApi ==
  \/ \E lot \in Lots, price_per_hour \in Prices \cup {NoPrice} :
       construct_session(lot, price_per_hour)
  \/ \E lot \in Lots, boxes \in ViewFrames : process_data(lot, boxes)

SpecApi == InitApi /\ [][NextApi]_vars

\* ------------------------------------------------------------- properties
Managed == {l \in Lots : parking_managers[l] # NoManager}

Spaces(l) == 1 .. Len(parking_managers[l].json)

\* The step is a process_data call on the session of lot l
FrameOn(l) == l \in Managed /\ frames'[l] = frames[l] + 1

\* The verdict of that call for space k (rg_occupied of region k)
SeenOccupied(l, k) == RegionOccupied(parking_managers[l].json[k], request'.boxes, 1)

\* C1: in the initial state and after every process_data call, a space that
\* is available has Time = 0 and Invoice = 0.
C1_AvailableMeansZero ==
  \A l \in Managed : \A k \in Spaces(l) :
    parking_managers[l].spots[k].IsAvailable
      => /\ parking_managers[l].spots[k].Time = 0
         /\ parking_managers[l].spots[k].Invoice = 0

\* A session with a positive Time and Invoice was closed and its space is
\* available again.
C1_Witness ==
  \E l \in Managed : \E k \in Spaces(l) :
    /\ parking_managers[l].spots[k].IsAvailable
    /\ occupied_run[l][k] = 0
    /\ parking_managers[l].pr_info.total_time > 0
    /\ parking_managers[l].pr_info.total_cars = 1

\* C2: a frame that sees an available space occupied only counts the car and
\* marks the space not available; the space's Time and Invoice stay 0 (the
\* open row alone is applied, not the continue row as well).
C2_OpenLeavesTimeAndInvoice ==
  [][\A l \in Lots : FrameOn(l) =>
       \A k \in Spaces(l) :
         (parking_managers[l].spots[k].IsAvailable /\ SeenOccupied(l, k))
           => /\ parking_managers'[l].spots[k].IsAvailable = FALSE
              /\ parking_managers'[l].spots[k].Time = parking_managers[l].spots[k].Time
              /\ parking_managers'[l].spots[k].Invoice = parking_managers[l].spots[k].Invoice]_vars

\* C3: after the k-th consecutive occupied frame of a space that started
\* available, Time = k - 1 and Invoice = calc_invoice(k - 1, price).
C3_TimeIsRunMinusOne ==
  \A l \in Managed : \A k \in Spaces(l) :
    ~parking_managers[l].spots[k].IsAvailable
      => /\ parking_managers[l].spots[k].Time = occupied_run[l][k] - 1
         /\ parking_managers[l].spots[k].Invoice =
              calc_invoice(occupied_run[l][k] - 1, parking_managers[l].price_per_hour)

\* C4: a process_data call raises total_cars by exactly the number of spaces
\* that were available before the frame and are seen occupied in it.
C4_CarsCountOpenings ==
  [][\A l \in Lots : FrameOn(l) =>
       parking_managers'[l].pr_info.total_cars =
         parking_managers[l].pr_info.total_cars
           + Cardinality({k \in Spaces(l) :
                 parking_managers[l].spots[k].IsAvailable /\ SeenOccupied(l, k)})]_vars

\* Two sessions were opened by one frame, and a later frame that continued
\* one of them counted nothing.
C4_Witness ==
  \E l \in Managed :
    /\ parking_managers[l].pr_info.total_cars = 2
    /\ frames[l] = 2
    /\ \E k \in Spaces(l) : occupied_run[l][k] = 2

\* The spaces whose session the call closes
Closing(l) ==
  {k \in Spaces(l) : ~parking_managers[l].spots[k].IsAvailable /\ ~SeenOccupied(l, k)}

\* C5: a frame that sees a not-available space unoccupied adds the Time the
\* space held before the frame to total_time and round_invoice of the Invoice
\* it held to total_revenue, and leaves the space with Time = 0, Invoice = 0,
\* IsAvailable = true.
C5_CloseAddsHeldValues ==
  [][\A l \in Lots : FrameOn(l) =>
       /\ parking_managers'[l].pr_info.total_time =
            parking_managers[l].pr_info.total_time
              + SumOver([k \in Spaces(l) |-> parking_managers[l].spots[k].Time], Closing(l))
       /\ parking_managers'[l].pr_info.total_revenue =
            parking_managers[l].pr_info.total_revenue
              + SumOver([k \in Spaces(l) |->
                           round_invoice(parking_managers[l].spots[k].Invoice)], Closing(l))
       /\ \A k \in Closing(l) :
            parking_managers'[l].spots[k] = [Time |-> 0, Invoice |-> 0, IsAvailable |-> TRUE]]_vars

\* The last frame closed a session that had earned a positive rounded invoice.
C5_Witness ==
  \E l \in Managed : \E k \in Spaces(l) :
    /\ request.kind = "process_data" /\ request.lot = l
    /\ ~RegionOccupied(parking_managers[l].json[k], request.boxes, 1)
    /\ parking_managers[l].spots[k].IsAvailable
    /\ parking_managers[l].pr_info.total_cars = 1
    /\ parking_managers[l].pr_info.total_revenue > 0
    /\ parking_managers[l].pr_info.total_time >= 2

\* C6: in every reachable state the running Invoice of every space is
\* calc_invoice(Time, price_per_hour), the per-minute price times Time, not
\* rounded to a multiple of 100.
C6_InvoiceFromTime ==
  \A l \in Managed : \A k \in Spaces(l) :
    LET spot == parking_managers[l].spots[k]
        price == parking_managers[l].price_per_hour
    IN /\ spot.Invoice = calc_invoice(spot.Time, price)
       /\ 60 * spot.Invoice - price * spot.Time * Unit <= 30 * spot.Time
       /\ price * spot.Time * Unit - 60 * spot.Invoice <= 30 * spot.Time

\* A running session of two or more ticks whose Invoice is not a multiple of 100
C6_Witness ==
  \E l \in Managed : \E k \in Spaces(l) :
    /\ ~parking_managers[l].spots[k].IsAvailable
    /\ parking_managers[l].spots[k].Time >= 2
    /\ parking_managers[l].spots[k].Invoice % (100 * Unit) # 0

\* C7: over a process_data call during which a space stays not available its
\* Time does not decrease and grows by at most 1; Time decreases only by the
\* reset to 0 of a session close.
C7_TimeMonotone ==
  [][\A l \in Lots : FrameOn(l) =>
       \A k \in Spaces(l) :
         LET before == parking_managers[l].spots[k]
             after == parking_managers'[l].spots[k]
         IN /\ (~before.IsAvailable /\ ~after.IsAvailable)
                 => (after.Time >= before.Time /\ after.Time <= before.Time + 1)
            /\ after.Time < before.Time
                 => (~before.IsAvailable /\ after.IsAvailable /\ after.Time = 0)]_vars

\* A session that has been continued over several frames
C7_Witness ==
  \E l \in Managed : \E k \in Spaces(l) :
    /\ ~parking_managers[l].spots[k].IsAvailable
    /\ occupied_run[l][k] >= 3
    /\ parking_managers[l].spots[k].Time >= 2

\* C8: after every frame, Occupancy + Available is the number of configured
\* spaces.
C8_SnapshotSumsToSpaces ==
  \A l \in Managed :
    frames[l] > 0 =>
      parking_managers[l].pr_info.Occupancy + parking_managers[l].pr_info.Available
        = Len(parking_managers[l].json)

\* A frame left one space occupied and one available
C8_Witness ==
  \E l \in Managed :
    /\ frames[l] > 0
    /\ parking_managers[l].pr_info.Occupancy = 1
    /\ parking_managers[l].pr_info.Available = 1

\* C9: a frame in which every space was available and is seen unoccupied
\* leaves every space's Time, Invoice, IsAvailable and the totals total_cars,
\* total_time, total_revenue as they were.
C9_IdleFrameChangesNothing ==
  [][\A l \in Lots :
       (/\ FrameOn(l)
        /\ \A k \in Spaces(l) :
             parking_managers[l].spots[k].IsAvailable /\ ~SeenOccupied(l, k))
       => /\ parking_managers'[l].spots = parking_managers[l].spots
          /\ parking_managers'[l].pr_info.total_cars = parking_managers[l].pr_info.total_cars
          /\ parking_managers'[l].pr_info.total_time = parking_managers[l].pr_info.total_time
          /\ parking_managers'[l].pr_info.total_revenue
               = parking_managers[l].pr_info.total_revenue]_vars

\* Two frames in a row saw no space occupied, after a session had been closed
C9_Witness ==
  \E l \in Managed :
    /\ frames[l] >= 3
    /\ parking_managers[l].pr_info.total_cars = 1
    /\ \A k \in Spaces(l) : parking_managers[l].spots[k].IsAvailable
    /\ request.kind = "process_data" /\ request.lot = l /\ request.boxes = <<>>
    /\ parking_managers[l].pr_info.Occupancy = 0

\* C10: for a whole amount x >= 0, round_invoice(x) is floor(x / 100) * 100:
\* a multiple of 100, at most x and less than 100 below it, 0 for x < 100;
\* 2335 gives 2300, 99 gives 0, 3000 gives 3000.
C10_RoundDownToHundred ==
  request.kind = "round_invoice" =>
    \E x \in 0 .. MaxAmount :
      /\ amount = x * Unit
      /\ \E r \in 0 .. x :
           /\ rounded = r * Unit
           /\ r = (x \div 100) * 100
           /\ r % 100 = 0
           /\ x - r < 100
           /\ (x < 100 => r = 0)
           /\ (x = 2335 => r = 2300)
           /\ (x = 99 => r = 0)
           /\ (x = 3000 => r = 3000)

\* round_invoice has been applied to 2335
C10_Witness ==
  /\ request.kind = "round_invoice"
  /\ amount = 2335 * Unit
  /\ rounded = 2300 * Unit

Orderings(seq) ==
  LET n == Len(seq)
      bijections == {f \in [1 .. n -> 1 .. n] : \A i, j \in 1 .. n : i # j => f[i] # f[j]}
  IN {[i \in 1 .. n |-> seq[f[i]]] : f \in bijections}

\* C12: whatever the order in which a set of polygons is submitted, sorting by
\* get_min_coords and numbering 1..N gives each polygon the same id; the
\* polygon with key (10, 500) gets id 1 ahead of the one with key (40, 1553).
C12_IdsIndependentOfOrder ==
  request.kind = "sorted" =>
    /\ \A other \in Orderings(args) : sorted(other) = result
    /\ \A i, j \in 1 .. Len(result) :
         (get_min_coords(result[i]) = <<10, 500>> /\ get_min_coords(result[j]) = <<40, 1553>>)
           => i < j

\* C13: two requests for the same lot leave the session in the state that
\* processing the two frames one after the other, in one of the two orders,
\* produces.
C13_SerialOutcome ==
  (conc # NoConc /\ \A t \in Threads : conc.thr[t].pc = "done") =>
    \/ parking_managers[conc.lot]
         = ProcessData(ProcessData(conc.start, conc.thr[1].im0), conc.thr[2].im0)
    \/ parking_managers[conc.lot]
         = ProcessData(ProcessData(conc.start, conc.thr[2].im0), conc.thr[1].im0)

\* ------------------------------------------------- properties of the views
\* The object process_data is called on in a ProcessImageView request for lot l
SessionBefore(l) ==
  IF parking_managers[l] = NoManager
  THEN ParkingManagement(storage[l].json, PriceOfLot(l))
  ELSE parking_managers[l]

\* The step is a ProcessImageView request whose process_data call raised
ProcessDataRaised ==
  /\ request'.kind = "ProcessImageView"
  /\ served' = served + 1
  /\ response'.by = "process_data"

\* C14: a process_data call that raises leaves every space's Time, Invoice
\* and IsAvailable and every aggregate of the session as they were before
\* the call.
C14_FailedCallChangesNothing ==
  [][ProcessDataRaised =>
        /\ parking_managers'[request'.lot].spots = SessionBefore(request'.lot).spots
        /\ parking_managers'[request'.lot].pr_info = SessionBefore(request'.lot).pr_info]_vars

\* C15: no session exists whose price_per_hour is undefined, so no frame is
\* processed without a price.
C15_NoSessionWithoutPrice ==
  \A l \in Managed : parking_managers[l].price_per_hour # NoPrice

\* C16: no session exists whose space list is empty or holds a polygon
\* with fewer than 3 points.
C16_ConfigurationWellFormed ==
  \A l \in Managed :
    /\ Len(parking_managers[l].json) > 0
    /\ \A k \in Spaces(l) : Len(parking_managers[l].json[k].points) >= 3

\* C17: an entry of parking_managers appears for a lot only in a
\* CreateAnnotationView step.
C17_OnlyCreateRegisters ==
  [][\A l \in Lots :
       (parking_managers[l] = NoManager /\ parking_managers'[l] # NoManager)
         => request'.kind = "CreateAnnotationView"]_vars

\* The step is a CreateAnnotationView or ProcessImageView request
RequestOnLot ==
  /\ served' = served + 1
  /\ request'.kind \in {"CreateAnnotationView", "ProcessImageView"}

\* C18: a CreateAnnotationView or ProcessImageView request for one lot leaves
\* the spots and pr_info (the whole entry) of every other lot unchanged.
C18_OtherLotsUntouched ==
  [][RequestOnLot =>
       \A b \in Lots \ {request'.lot} : parking_managers'[b] = parking_managers[b]]_vars

\* Two lots have sessions, one with an open visit, and the last request
\* processed a frame on the other one, counting a car there.
C18_Witness ==
  /\ Managed = Lots
  /\ request.kind = "ProcessImageView"
  /\ request.boxes # <<>>
  /\ parking_managers[request.lot].pr_info.total_cars > 0
  /\ \E b \in Lots \ {request.lot} : parking_managers[b].pr_info.total_cars > 0

\* ------------------------------------------ properties of space ids, verdicts
\* C19: the keys of spots are exactly 1 .. N, N the number of polygons of
\* the lot's annotation file, in every state, and every one of them holds
\* Time, Invoice and IsAvailable.
C19_SpotKeysStable ==
  \A l \in Managed :
    /\ parking_managers[l].json = storage[l].json
    /\ DOMAIN parking_managers[l].spots = 1 .. Len(storage[l].json)
    /\ \A k \in Spaces(l) :
         DOMAIN parking_managers[l].spots[k] = {"Time", "Invoice", "IsAvailable"}

\* A two-space session after a visit was closed on one space while the
\* other one is occupied
C19_Witness ==
  \E l \in Managed :
    /\ Len(parking_managers[l].json) = 2
    /\ parking_managers[l].pr_info.total_time > 0
    /\ \E k \in Spaces(l) : ~parking_managers[l].spots[k].IsAvailable
    /\ \E k \in Spaces(l) : parking_managers[l].spots[k].IsAvailable

\* The centroid of a detection is inside or on the boundary of the polygon
CentroidIn(box, region) ==
  pointPolygonTest(region.points, (box[1] + box[3]) \div 2, (box[2] + box[4]) \div 2) >= 0

\* C20: after a frame a space is marked occupied if and only if at least
\* one detection of the frame has its centroid inside or on the boundary of
\* the space's polygon, each space on its own.
C20_VerdictIsAnyDetection ==
  [][\A l \in Lots : FrameOn(l) =>
       \A k \in Spaces(l) :
         parking_managers'[l].spots[k].IsAvailable
           = ~(\E i \in 1 .. Len(request'.boxes) :
                 CentroidIn(request'.boxes[i], parking_managers[l].json[k]))]_vars

\* A frame with a single detection, whose centroid is the corner shared by
\* the two polygons, has marked both spaces occupied.
C20_Witness ==
  /\ request.kind = "process_data"
  /\ Len(request.boxes) = 1
  /\ Len(parking_managers[request.lot].json) = 2
  /\ \A k \in Spaces(request.lot) :
       /\ ~parking_managers[request.lot].spots[k].IsAvailable
       /\ pointPolygonTest(parking_managers[request.lot].json[k].points,
                           (request.boxes[1][1] + request.boxes[1][3]) \div 2,
                           (request.boxes[1][2] + request.boxes[1][4]) \div 2) = 0

\* ------------------------------------------- properties of the aggregates
\* The spaces of a session with an open visit
NotAvailable(self) == {k \in 1 .. Len(self.json) : ~self.spots[k].IsAvailable}

\* The sum of the running Time of all spaces of a session
RunningTime(self) ==
  SumOver([k \in 1 .. Len(self.json) |-> self.spots[k].Time], 1 .. Len(self.json))

\* The spaces that were not available before the step and are available after it
ClosedNow(l) ==
  {k \in Spaces(l) : /\ ~parking_managers[l].spots[k].IsAvailable
                     /\ parking_managers'[l].spots[k].IsAvailable}

\* C21: total_cars is the number of visits closed so far plus the number of
\* spaces not available: it is so when a session gets its first frame, and
\* every frame raises total_cars minus the number of not-available spaces by
\* exactly the number of visits it closes.  No minute is lost or counted twice: total_time plus
\* the running Time of all spaces grows by one per space seen occupied, and
\* total_revenue grows by the rounded Invoice of the visits closed, once.
C21_VisitsConserved ==
  [][\A l \in Lots : FrameOn(l) =>
          /\ frames[l] = 0 =>
                parking_managers[l].pr_info.total_cars
                  = Cardinality(NotAvailable(parking_managers[l]))
          /\ parking_managers'[l].pr_info.total_cars
               - Cardinality(NotAvailable(parking_managers'[l]))
             = parking_managers[l].pr_info.total_cars
                 - Cardinality(NotAvailable(parking_managers[l]))
                 + Cardinality(ClosedNow(l))
          /\ parking_managers'[l].pr_info.total_time + RunningTime(parking_managers'[l])
             = parking_managers[l].pr_info.total_time + RunningTime(parking_managers[l])
                 + Cardinality({k \in Spaces(l) : SeenOccupied(l, k)})
          /\ parking_managers'[l].pr_info.total_revenue
             = parking_managers[l].pr_info.total_revenue
                 + SumOver([k \in Spaces(l) |->
                              round_invoice(parking_managers[l].spots[k].Invoice)],
                           ClosedNow(l))]_vars

\* Two visits were opened on a two-space lot; one has been closed with a
\* positive Time, the other is still open.
C21_Witness ==
  \E l \in Managed :
    /\ parking_managers[l].pr_info.total_cars = 2
    /\ Cardinality(NotAvailable(parking_managers[l])) = 1
    /\ parking_managers[l].pr_info.total_time > 0
    /\ RunningTime(parking_managers[l]) > 0

\* C22: after every frame each space's IsAvailable is the negation of the
\* frame's verdict for it, Occupancy is the number of spaces not available
\* and Available the number of spaces available, whatever they were before.
C22_StateMirrorsFrame ==
  [][\A l \in Lots : FrameOn(l) =>
       /\ \A k \in Spaces(l) :
            parking_managers'[l].spots[k].IsAvailable = ~SeenOccupied(l, k)
       /\ parking_managers'[l].pr_info.Occupancy
            = Cardinality(NotAvailable(parking_managers'[l]))
       /\ parking_managers'[l].pr_info.Available
            = Len(parking_managers'[l].json)
                - Cardinality(NotAvailable(parking_managers'[l]))]_vars

\* Both spaces of a lot had been occupied (two cars counted, Occupancy 2
\* after that frame); the last frame found one of them empty and Occupancy
\* is 1, Available 1.
C22_Witness ==
  \E l \in Managed :
    /\ request.kind = "process_data" /\ request.lot = l
    /\ parking_managers[l].pr_info.total_cars = 2
    /\ parking_managers[l].pr_info.total_time > 0
    /\ parking_managers[l].pr_info.Occupancy = 1
    /\ parking_managers[l].pr_info.Available = 1
    /\ \E k \in Spaces(l) : parking_managers[l].spots[k].Time >= 2

\* The verdicts of the frame close no visit on lot l
NoClose(l) == \A k \in Spaces(l) : parking_managers[l].spots[k].IsAvailable \/ SeenOccupied(l, k)

\* The verdicts of the frame open no visit on lot l
NoOpen(l) == \A k \in Spaces(l) : ~parking_managers[l].spots[k].IsAvailable \/ ~SeenOccupied(l, k)

\* C23: a frame that closes no visit leaves total_time and total_revenue
\* unchanged; when it opens none either (every space idle or continuing)
\* total_cars is unchanged as well.
C23_TotalsMoveOnlyAtClose ==
  [][\A l \in Lots : (FrameOn(l) /\ NoClose(l)) =>
       /\ parking_managers'[l].pr_info.total_time = parking_managers[l].pr_info.total_time
       /\ parking_managers'[l].pr_info.total_revenue
            = parking_managers[l].pr_info.total_revenue
       /\ NoOpen(l) =>
            parking_managers'[l].pr_info.total_cars
              = parking_managers[l].pr_info.total_cars]_vars

\* After an earlier visit was closed with revenue, one visit has been
\* continued over at least two frames and another has just been opened.
C23_Witness ==
  \E l \in Managed :
    /\ parking_managers[l].pr_info.total_revenue > 0
    /\ parking_managers[l].pr_info.total_time > 0
    /\ \E k \in Spaces(l) : occupied_run[l][k] >= 2 /\ parking_managers[l].spots[k].Time >= 2
    /\ \E k \in Spaces(l) : occupied_run[l][k] = 1 /\ parking_managers[l].spots[k].Time = 1

\* C24: total_cars, total_time and total_revenue never decrease from one
\* frame to the next, and total_revenue is a whole multiple of 100 before
\* and after every frame.
C24_TotalsMonotone ==
  [][\A l \in Lots : FrameOn(l) =>
       /\ parking_managers'[l].pr_info.total_cars >= parking_managers[l].pr_info.total_cars
       /\ parking_managers'[l].pr_info.total_time >= parking_managers[l].pr_info.total_time
       /\ parking_managers'[l].pr_info.total_revenue
            >= parking_managers[l].pr_info.total_revenue
       /\ parking_managers[l].pr_info.total_revenue % (100 * Unit) = 0
       /\ parking_managers'[l].pr_info.total_revenue % (100 * Unit) = 0]_vars

\* Two visits have been closed, their running Invoices were not multiples
\* of 100, and the revenue is positive.
C24_Witness ==
  \E l \in Managed :
    /\ parking_managers[l].pr_info.total_cars >= 2
    /\ NotAvailable(parking_managers[l]) = {}
    /\ parking_managers[l].pr_info.total_time >= 2
    /\ parking_managers[l].pr_info.total_revenue >= 100 * Unit
    /\ PerMinute(parking_managers[l].price_per_hour) % (100 * Unit) # 0

\* ------------------------------------------------ properties of re-annotation
\* The step is an accepted CreateAnnotationView request for a lot that had an entry
Reannotation ==
  /\ request'.kind = "CreateAnnotationView"
  /\ served' = served + 1
  /\ response'.status = 201
  /\ parking_managers[request'.lot] # NoManager

\* C25: an accepted CreateAnnotationView request for a lot that has an entry
\* leaves the lot with a session on the new file in which every space is
\* available with Time = 0 and Invoice = 0 and every aggregate is 0; nothing
\* of the replaced session, open visits included, is carried over.
C25_ReannotationStartsFresh ==
  [][Reannotation =>
       LET self == parking_managers'[request'.lot]
       IN /\ self.json = storage'[request'.lot].json
          /\ self.json = sorted(args')
          /\ DOMAIN self.spots = 1 .. Len(self.json)
          /\ \A k \in 1 .. Len(self.json) :
               self.spots[k] = [Time |-> 0, Invoice |-> 0, IsAvailable |-> TRUE]
          /\ self.pr_info = [Occupancy |-> 0, Available |-> 0, total_cars |-> 0,
                             total_time |-> 0, total_revenue |-> 0]]_vars

\* The last request re-annotated a lot whose session had counted a car and
\* held an open visit with a positive Time and Invoice; the lot's session
\* now reports nothing of it.
C25_Witness ==
  /\ request.kind = "CreateAnnotationView"
  /\ response.status = 201
  /\ result # NoManager
  /\ result.pr_info.total_cars > 0
  /\ \E k \in 1 .. Len(result.json) :
       /\ ~result.spots[k].IsAvailable
       /\ result.spots[k].Time > 0
       /\ result.spots[k].Invoice > 0
  /\ parking_managers[request.lot].pr_info.total_cars = 0
  /\ NotAvailable(parking_managers[request.lot]) = {}
====
